---- MODULE Spec2Model ----
(***************************************************************************)
(* The lazy hierarchical query tree of doubletree.py: Bound Queries over   *)
(* the template chains of tree_views, the tree nodes RPQ_TreeNode /        *)
(* RPQ_ParentNode with their lazily cached sibling pointers, the browse    *)
(* pane InstanceView (new_tree, keypress and the instance_ops dispatch),   *)
(* the ViewList and the two Window operations that re-root the tree.       *)
(*                                                                         *)
(* rdf_util.pl (RPQ, querylist, copy, child_query, keys, all_classes,      *)
(* mixed_query, fill_query) is not part of the sources; those operators    *)
(* follow sections 4.1, 4.3 and 4.4 of the specification.                  *)
(***************************************************************************)
EXTENDS Integers, Sequences, FiniteSets, TLC

\* ---- bounds of the model ----
MaxNodes == 3          \* tree nodes that may be constructed in one run
MaxQueries == 4        \* Bound Queries that may be retained in one run
MaxRaw == 3            \* binding tuples in one raw engine result of 'dates'

\* ---- Python values ----
None == 0              \* self._prev_sibling = None / self._next_sibling = None
FalseSentinel == -1    \* the value tested by "is False" in next/prev_sibling
Unset == "<unset>"     \* InstanceView.parent before the first assignment
NoParent == "<none>"   \* the default parent binding (.., None) of a template

Classes == {"Resource", "Artist", "Release", "Event"}
ViewNames == <<"instance_list", "artist_releases">>
DBs == {1, 2, 3}
Keys == {"A", "B", "X", "Y", "T1", "T2"}
KeyPresses == {"enter", "down", "up", "tab", "x"}
Faults == {0, 1, 2}    \* which engine call of an operation raises (0: none)

\* tree_views[view]['root']
ViewRoot(view) ==
    IF view = "instance_list" THEN "Resource" ELSE "Artist"

\* len(tree_views[view]['query'])
ChainLen(view) ==
    IF view = "instance_list" THEN 1 ELSE 3

\* the .type of a node value (the entity type tag of the resource)
TypeOf(key) ==
    CASE key \in {"A", "B"} -> "Artist"
      [] key \in {"X", "Y"} -> "Release"
      [] OTHER -> "Recording"

\* instance_ops.get(sel_type, {}).get(key): the mutating template or ""
instance_ops_any_key(sel_type, key) ==
    CASE sel_type = "Recording" -> "xcat_filepath"
      [] sel_type = "Release" -> "xcat_tracklist_filepaths"
      [] OTHER -> ""

instance_ops(sel_type, key) ==
    IF key # "enter" THEN ""
    ELSE CASE sel_type = "Recording" -> "xcat_filepath"
           [] sel_type = "Release" -> "xcat_tracklist_filepaths"
           [] OTHER -> ""

\* all_classes(pl, leaf_class): the ancestor closure of a class, as the
\* engine answers it; the closure of "Event" holds no root of a view
all_classes(c) ==
    CASE c = "Resource" -> <<"Resource">>
      [] c = "Event" -> <<"Event">>
      [] OTHER -> <<c, "Resource">>

\* the views whose root is the class c, in registry order
ViewsOfClass_all(c) == ViewNames

ViewsOfClass(c) ==
    SelectSeq(ViewNames, LAMBDA v : ViewRoot(v) = c)

RECURSIVE ViewsOfClasses(_)
ViewsOfClasses(classes) ==
    IF classes = <<>> THEN <<>>
    ELSE ViewsOfClass(Head(classes)) \o ViewsOfClasses(Tail(classes))

\* ViewList.load_views: the new content of the view list
load_views(leaf_class) == ViewsOfClasses(all_classes(leaf_class))

\* ---- the engine: ordered result keys of one template for one parent ----
Artists(d, pv) ==
    IF pv # "Artist" THEN <<>>
    ELSE CASE d = 1 -> <<"A">>
           [] d = 2 -> <<"A", "B">>
           [] OTHER -> <<>>

Albums(d, pv) ==
    CASE d = 1 /\ pv = "A" -> <<"X", "Y">>
      [] d = 2 /\ pv = "A" -> <<"X", "Y">>
      [] OTHER -> <<>>

Tracks(d, pv) ==
    CASE d = 1 /\ pv = "X" -> <<"T1">>
      [] d = 2 /\ pv = "X" -> <<"T1", "T2">>
      [] OTHER -> <<>>

Individuals(d, pv) ==
    CASE pv = "Artist" -> Artists(d, pv)
      [] pv = "Release" /\ d = 1 -> <<"X", "Y">>
      [] pv = "Release" /\ d = 2 -> <<>>
      [] pv = "Release" /\ d = 3 -> <<"X">>
      [] pv = "Resource" /\ d = 1 -> <<"A", "X", "T1">>
      [] pv = "Resource" /\ d = 2 -> <<"A", "B", "X">>
      [] pv = NoParent /\ d = 1 -> <<"A", "X", "T1">>
      [] OTHER -> <<>>

Execute(d, view, level, pv) ==
    IF view = "instance_list" THEN Individuals(d, pv)
    ELSE CASE level = 1 -> Artists(d, pv)
           [] level = 2 -> Albums(d, pv)
           [] level = 3 -> Tracks(d, pv)
           [] OTHER -> <<>>

VARIABLES
    db,        \* the engine's knowledge base (fixed during a run)
    queries,   \* heap of retained Bound Queries, identity = index
    nodes,     \* heap of constructed tree nodes, identity = index
    body,      \* InstanceView.body: first node of the displayed tree, None = placeholder
    focus,     \* InstanceView.focus: the focused node, None = placeholder
    rpquery,   \* InstanceView.rpquery: a query id or None
    iparent,   \* InstanceView.parent
    views,     \* ViewList.body: the listed view names
    vfocus,    \* ViewList focus position (0 = no focus)
    loop,      \* the main loop: "running", "faulted" (PrologError), "crashed",
               \* "exited" (ExitMainLoop)
    lastOp,    \* what the most recent operation did and returned
    expanded,  \* the nodes whose RPQ_NodeText widget has expanded = True
    alarms,    \* the number of alarms pending in the main loop
    raw,       \* the engine's raw result for a template of the 'dates' view
    tmpl,      \* the level of that template in the 'dates' chain
    dates,     \* the entries of the Bound Query executed from raw
    children   \* the child nodes held by their parent node's child lookup

uvars == <<raw, tmpl, dates>>

vars == <<db, queries, nodes, body, focus, rpquery, iparent, views, vfocus,
          loop, lastOp, expanded, alarms, raw, tmpl, dates, children>>

NodeIds == 1..Len(nodes)
QueryIds == 1..Len(queries)

\* the record of one operation: the node it was called on, the key pressed,
\* the direction of the sibling call it made (1 next, -1 previous, 0 none),
\* the node it returned, the key list it returned, the engine and
\* collaborator calls it made in order, whether the key went on to the
\* default key handling, and the dispatch query <<template, key>> submitted;
\* wret is what the focused node widget returned for the key ("" for None
\* or when the widget was not asked)
Op(op, node, key, dir, ret, keys, events, fwd, q) ==
    [op |-> op, node |-> node, key |-> key, dir |-> dir, ret |-> ret,
     keys |-> keys, events |-> events, fwd |-> fwd, q |-> q, wret |-> ""]

OpW(wret, op, node, key, dir, ret, keys, events, fwd, q) ==
    [Op(op, node, key, dir, ret, keys, events, fwd, q) EXCEPT !.wret = wret]

\* ---- Bound Query (rdf_util.pl, following section 4.1) ----
BoundQuery(view, level, pv) ==
    [view |-> view, level |-> level, pv |-> pv,
     keys |-> Execute(db, view, level, pv)]

\* the absent result of the last template: no keys
Absent(q) ==
    [view |-> q.view, level |-> q.level + 1, pv |-> NoParent, keys |-> <<>>]

child_query(q, key) ==
    IF q.level < ChainLen(q.view)
    THEN BoundQuery(q.view, q.level + 1, key)
    ELSE Absent(q)

copy(q, pv) == BoundQuery(q.view, q.level, pv)

querylist(view) == BoundQuery(view, 1, NoParent)

\* keys().index(key): position of the first occurrence
index(keys, key) ==
    CHOOSE i \in 1..Len(keys) :
        keys[i] = key /\ \A j \in 1..(i - 1) : keys[j] # key

\* ---- tree nodes ----
\* RPQ_TreeNode.__init__ and the choice of class made by RPQ_Node
RPQ_Node_by_level(qid, q, key, parent) ==
    [pq |-> qid, key |-> key, parent |-> parent,
     prev |-> None, next |-> None,
     leaf |-> ~(q.level < ChainLen(q.view))]

RPQ_Node(qid, q, key, parent) ==
    [pq |-> qid, key |-> key, parent |-> parent,
     prev |-> None, next |-> None,
     leaf |-> ~(Len(child_query(q, key).keys) > 0)]

Init ==
    /\ db \in DBs
    /\ queries = <<>>
    /\ nodes = <<>>
    /\ body = None
    /\ focus = None
    /\ rpquery = None
    /\ iparent = Unset
    /\ views = load_views("Resource")
    /\ vfocus = 1
    /\ loop = "running"
    /\ lastOp = Op("init", None, "", 0, None, <<>>, <<>>, FALSE, <<>>)
    /\ expanded = {}
    /\ alarms = 1
    /\ raw = <<>>
    /\ tmpl = 1
    /\ dates = <<>>
    /\ children = {}

\* ---- InstanceView.new_tree(parent, query), query = querylist(view) ----
\* first_node = RPQ_Node(self.rpquery, self.rpquery.keys()[0], None)
first_node_keeps_sibling(qid, q) ==
    [RPQ_Node(qid, q, q.keys[1], None) EXCEPT !.prev = body]

first_node(qid, q) == RPQ_Node(qid, q, q.keys[1], None)

\* parent = NoParent stands for the call without a parent argument.
\* fault = 1: query.copy raises PrologError; fault = 2: the child query of
\* RPQ_Node raises it.
new_tree(parent, view, fault, opname) ==
    LET p == IF parent # NoParent THEN parent ELSE iparent
        orig == querylist(view)
        qid == Len(queries) + 2
        q == copy(orig, p)
        nid == Len(nodes) + 1
    IN  /\ Len(queries) + 2 <= MaxQueries
        /\ Len(nodes) + 1 <= MaxNodes
        /\ iparent' = p
        /\ IF p = Unset
           THEN \* self.parent was never assigned: AttributeError
                /\ fault = 0
                /\ loop' = "crashed"
                /\ lastOp' = Op(opname, None, "", 0, None, <<>>, <<>>, FALSE, <<>>)
                /\ UNCHANGED <<queries, nodes, body, focus, rpquery>>
           ELSE IF fault = 1
           THEN /\ loop' = "faulted"
                /\ queries' = Append(queries, orig)
                /\ lastOp' = Op(opname, None, "", 0, None, <<>>, <<"copy">>, FALSE, <<>>)
                /\ UNCHANGED <<nodes, body, focus, rpquery>>
           ELSE /\ queries' = Append(Append(queries, orig), q)
                /\ rpquery' = qid
                /\ IF Len(q.keys) > 0
                   THEN IF fault = 2
                        THEN /\ loop' = "faulted"
                             /\ lastOp' = Op(opname, None, "", 0, None, <<>>,
                                             <<"copy", "child_query">>, FALSE, <<>>)
                             /\ UNCHANGED <<nodes, body, focus>>
                        ELSE /\ nodes' = Append(nodes, first_node(qid, q))
                             /\ body' = nid
                             /\ focus' = nid
                             /\ loop' = loop
                             /\ lastOp' = Op(opname, None, "", 0, nid, <<>>,
                                             <<"copy", "child_query">>, FALSE, <<>>)
                   ELSE /\ fault = 0
                        /\ loop' = loop
                        /\ lastOp' = Op(opname, None, "", 0, None, <<>>, <<"copy">>,
                                        FALSE, <<>>)
                        /\ UNCHANGED <<nodes, body, focus>>

\* ViewList.selected(): self.focus.get_text()[0]; the focus of an empty
\* list is None, which has no get_text (AttributeError, "" here)
selected(vs, vf) == IF vf > 0 THEN vs[vf] ELSE ""

\* Window.load_instances(sel_class), reached from ClassView.keypress("enter")
load_instances(sel_class, fault) ==
    /\ loop = "running"
    /\ views' = load_views(sel_class)
    /\ vfocus' = IF Len(views') > 0 THEN 1 ELSE 0
    /\ IF selected(views', vfocus') = ""
       THEN /\ fault = 0
            /\ loop' = "crashed"
            /\ lastOp' = Op("load_instances", None, sel_class, 0, None, <<>>,
                            <<>>, FALSE, <<>>)
            /\ UNCHANGED <<queries, nodes, body, focus, rpquery, iparent>>
       ELSE new_tree(sel_class, selected(views', vfocus'), fault,
                     "load_instances")
    /\ UNCHANGED db

\* ViewList.keypress: "enter" is Window.load_view, up/down move the focus
ViewList_keypress(key, fault) ==
    /\ loop = "running"
    /\ vfocus > 0
    /\ IF key = "enter"
       THEN /\ new_tree(NoParent, selected(views, vfocus), fault, "load_view")
            /\ UNCHANGED <<db, views, vfocus>>
       ELSE /\ fault = 0
            /\ vfocus' = CASE key = "down" /\ vfocus < Len(views) -> vfocus + 1
                           [] key = "up" /\ vfocus > 1 -> vfocus - 1
                           [] OTHER -> vfocus
            /\ lastOp' = Op("view_key", None, key, 0, None, <<>>, <<>>, FALSE, <<>>)
            /\ UNCHANGED <<db, queries, nodes, body, focus, rpquery, iparent,
                           views, loop>>

\* ---- RPQ_TreeNode.next_sibling / prev_sibling ----
\* dir = 1: next_sibling, dir = -1: prev_sibling.  The effect on nodes, loop
\* and lastOp of calling it on node n; fault = 1: the child query of RPQ_Node
\* raises PrologError.  key = "": called by the tree walker, otherwise by
\* the default key handling of the key press key.
Cached(n, dir) == IF dir = 1 THEN nodes[n].next ELSE nodes[n].prev

\* "if self._next_sibling:" / "if self._prev_sibling:"
resolved_uncached(c) == FALSE

resolved(c) == c # None

\* self._next_sibling._prev_sibling = self / self._prev_sibling._next_sibling = self
link_missing(made, n, dir) == made

link(made, n, dir) ==
    IF dir = 1 THEN [made EXCEPT !.prev = n] ELSE [made EXCEPT !.next = n]

\* "keys().index(self.get_key()) + 1" / "keys().index(self.get_key()) - 1"
neighbour_skip(i, dir) == IF dir = 1 THEN i + 2 ELSE i - 1

neighbour(i, dir) == i + dir

\* self.get_parent(), the parent handed to the new sibling
sibling_parent_none(cur) == None

sibling_parent(cur) == cur.parent

sibling(n, dir, fault, opname, key) ==
    LET cur == nodes[n]
        keys == queries[cur.pq].keys
        idx == neighbour(index(keys, cur.key), dir)
        \* next_key_idx < len(keys) resp. (next_key_idx + 1), 1-based here
        exists == IF dir = 1 THEN idx <= Len(keys) ELSE idx # 0
        nid == Len(nodes) + 1
        made == RPQ_Node(cur.pq, queries[cur.pq], keys[idx],
                         sibling_parent(cur))
    IN  IF Cached(n, dir) = FalseSentinel
        THEN /\ fault = 0
             /\ lastOp' = OpW(key, opname, n, key, dir, None, <<>>, <<>>, key # "", <<>>)
             /\ UNCHANGED <<nodes, loop>>
        ELSE IF resolved(Cached(n, dir))
        THEN /\ fault = 0
             /\ lastOp' = OpW(key, opname, n, key, dir, Cached(n, dir), <<>>, <<>>, key # "", <<>>)
             /\ UNCHANGED <<nodes, loop>>
        ELSE IF exists
        THEN /\ Len(nodes) + 1 <= MaxNodes
             /\ fault \in {0, 1}
             /\ IF fault = 1
                THEN /\ loop' = "faulted"
                     /\ lastOp' = OpW(key, opname, n, key, dir, None, <<>>,
                                     <<"index", "child_query">>, key # "", <<>>)
                     /\ UNCHANGED nodes
                ELSE /\ loop' = loop
                     /\ nodes' = Append(
                            [nodes EXCEPT ![n] =
                                IF dir = 1 THEN [@ EXCEPT !.next = nid]
                                ELSE [@ EXCEPT !.prev = nid]],
                            link(made, n, dir))
                     /\ lastOp' = OpW(key, opname, n, key, dir, nid, <<>>,
                                     <<"index", "child_query">>, key # "", <<>>)
        ELSE /\ fault = 0
             /\ lastOp' = OpW(key, opname, n, key, dir, None, <<>>, <<"index">>, key # "", <<>>)
             /\ UNCHANGED <<nodes, loop>>

\* the tree walker asks a node for its next sibling
next_sibling(n, fault) ==
    /\ loop = "running"
    /\ sibling(n, 1, fault, "next_sibling", "")
    /\ UNCHANGED <<db, queries, body, focus, rpquery, iparent, views, vfocus>>

\* the tree walker asks a node for its previous sibling
prev_sibling(n, fault) ==
    /\ loop = "running"
    /\ sibling(n, -1, fault, "prev_sibling", "")
    /\ UNCHANGED <<db, queries, body, focus, rpquery, iparent, views, vfocus>>

\* ---- RPQ_ParentNode ----
\* self.parent_query.child_query(self.get_key()).keys()
child_keys_own(n) == queries[nodes[n].pq].keys

child_keys(n) == child_query(queries[nodes[n].pq], nodes[n].key).keys

load_child_keys(n, fault) ==
    /\ loop = "running"
    /\ ~nodes[n].leaf
    /\ fault \in {0, 1}
    /\ IF fault = 1
       THEN /\ loop' = "faulted"
            /\ lastOp' = Op("load_child_keys", n, "", 0, None, <<>>,
                            <<"child_query">>, FALSE, <<>>)
       ELSE /\ loop' = loop
            /\ lastOp' = Op("load_child_keys", n, "", 0, None,
                            child_keys(n),
                            <<"child_query">>, FALSE, <<>>)
    /\ UNCHANGED <<db, queries, nodes, body, focus, rpquery, iparent, views,
                   vfocus>>

\* the child lookup of the parent node n (inherited from ur.ParentNode):
\* the node it holds for key, or None
get_child_node(n, key) ==
    IF \E m \in children : nodes[m].parent = n /\ nodes[m].key = key
    THEN CHOOSE m \in children : nodes[m].parent = n /\ nodes[m].key = key
    ELSE None

\* load_child_node is called by the child lookup for a key it does not
\* hold yet; the lookup keeps the returned node
load_child_node(n, key, fault) ==
    LET cq == child_query(queries[nodes[n].pq], nodes[n].key)
        qid == Len(queries) + 1
        nid == Len(nodes) + 1
    IN  /\ loop = "running"
        /\ ~nodes[n].leaf
        /\ \E i \in 1..Len(cq.keys) : cq.keys[i] = key
        /\ get_child_node(n, key) = None
        /\ Len(queries) + 1 <= MaxQueries
        /\ Len(nodes) + 1 <= MaxNodes
        /\ IF fault = 1
           THEN /\ loop' = "faulted"
                /\ lastOp' = Op("load_child_node", n, key, 0, None, <<>>,
                                <<"child_query">>, FALSE, <<>>)
                /\ UNCHANGED <<queries, nodes, children>>
           ELSE IF fault = 2
           THEN /\ loop' = "faulted"
                /\ queries' = Append(queries, cq)
                /\ lastOp' = Op("load_child_node", n, key, 0, None, <<>>,
                                <<"child_query", "child_query">>, FALSE, <<>>)
                /\ UNCHANGED <<nodes, children>>
           ELSE /\ loop' = loop
                /\ queries' = Append(queries, cq)
                /\ nodes' = Append(nodes, RPQ_Node(qid, cq, key, n))
                /\ children' = children \union {nid}
                /\ lastOp' = Op("load_child_node", n, key, 0, nid, <<>>,
                                <<"child_query", "child_query">>, FALSE, <<>>)
        /\ UNCHANGED <<db, body, focus, rpquery, iparent, views, vfocus>>

\* ---- InstanceView.keypress ----
\* mixed_query(pl, fill_query(operation, key_dict)): the engine query, then
\* the hand-over of the raw results to the operation's result handler
mixed_query == <<"mixed_query", "handler">>

\* mixed_query(...) followed by self.window.frames['now'].reload()
dispatch_reload_first == <<"reload">> \o mixed_query

dispatch == mixed_query \o <<"reload">>

\* ---- RPQ_NodeText ----
\* RPQ_NodeText.keypress on a widget with the given is_leaf and expanded:
\* the new value of expanded and the returned key ("" for None)
NodeText_keypress_any(leaf, exp, key) ==
    [expanded |-> IF key = "tab" THEN ~exp ELSE exp,
     ret |-> IF key = "tab" THEN "" ELSE key]

NodeText_keypress(leaf, exp, key) ==
    [expanded |-> IF key = "tab" /\ ~leaf THEN ~exp ELSE exp,
     ret |-> IF key = "tab" THEN "" ELSE key]

InstanceView_keypress(key, fault) ==
    LET operation == IF focus = None THEN ""
                     ELSE instance_ops(TypeOf(nodes[focus].key), key)
        w == IF focus = None THEN [expanded |-> FALSE, ret |-> key]
             ELSE NodeText_keypress(nodes[focus].leaf, focus \in expanded, key)
    IN  /\ loop = "running"
        /\ IF operation # ""
           THEN /\ fault \in {0, 1}
                /\ IF fault = 1
                   THEN /\ loop' = "faulted"
                        /\ lastOp' = Op("keypress", focus, key, 0, None, <<>>,
                                        <<"mixed_query">>, FALSE,
                                        <<operation, nodes[focus].key>>)
                   ELSE /\ loop' = loop
                        /\ lastOp' = Op("keypress", focus, key, 0, None, <<>>,
                                        dispatch, FALSE,
                                        <<operation, nodes[focus].key>>)
                /\ UNCHANGED <<nodes, focus, expanded>>
           ELSE \* super().keypress(size, key): the focused widget first,
                \* then the list box for the keys the widget returns
                IF focus # None /\ w.ret \in {"down", "up"}
                THEN /\ sibling(focus, IF key = "down" THEN 1 ELSE -1,
                                fault, "keypress", key)
                     /\ focus' = IF lastOp'.ret # None THEN lastOp'.ret
                                 ELSE focus
                     /\ UNCHANGED expanded
                ELSE /\ fault = 0
                     /\ lastOp' = [Op("keypress", focus, key, 0, None, <<>>,
                                      <<>>, TRUE, <<>>)
                                   EXCEPT !.wret = w.ret]
                     /\ expanded' = IF focus = None THEN expanded
                                    ELSE IF w.expanded
                                    THEN expanded \union {focus}
                                    ELSE expanded \ {focus}
                     /\ UNCHANGED <<nodes, focus, loop>>
        /\ UNCHANGED <<db, queries, body, rpquery, iparent, views, vfocus>>

\* ---- Window ----
\* Window.update_dynamic, the callback of the pending alarm: the alarm that
\* fired leaves the queue, the 'now' view is refreshed, one alarm is set
rearm_none(a) == a

rearm(a) == a + 1

update_dynamic ==
    /\ loop = "running"
    /\ alarms > 0
    /\ alarms' = rearm(alarms - 1)
    /\ lastOp' = Op("update_dynamic", None, "", 0, None, <<>>,
                    <<"reload_screen", "set_alarm_in">>, FALSE, <<>>)
    /\ UNCHANGED <<db, queries, nodes, body, focus, rpquery, iparent, views,
                   vfocus, loop, expanded, uvars, children>>

\* Window.keypress with 'esc', 'q' or 'Q': raise ur.ExitMainLoop()
Window_quit ==
    /\ loop = "running"
    /\ loop' = "exited"
    /\ lastOp' = Op("quit", None, "q", 0, None, <<>>, <<>>, FALSE, <<>>)
    /\ UNCHANGED <<db, queries, nodes, body, focus, rpquery, iparent, views,
                   vfocus, expanded, alarms, uvars, children>>

Next ==
    \/ \E c \in Classes, f \in Faults :
        load_instances(c, f) /\ UNCHANGED <<expanded, alarms, uvars, children>>
    \/ \E k \in {"enter", "down", "up"}, f \in Faults :
        ViewList_keypress(k, f) /\ UNCHANGED <<expanded, alarms, uvars, children>>
    \/ \E n \in NodeIds, f \in Faults :
        next_sibling(n, f) /\ UNCHANGED <<expanded, alarms, uvars, children>>
    \/ \E n \in NodeIds, f \in Faults :
        prev_sibling(n, f) /\ UNCHANGED <<expanded, alarms, uvars, children>>
    \/ \E n \in NodeIds, f \in Faults :
        load_child_keys(n, f) /\ UNCHANGED <<expanded, alarms, uvars, children>>
    \/ \E n \in NodeIds, k \in Keys, f \in Faults :
        load_child_node(n, k, f) /\ UNCHANGED <<expanded, alarms, uvars>>
    \/ \E k \in KeyPresses, f \in Faults :
        InstanceView_keypress(k, f) /\ UNCHANGED <<alarms, uvars, children>>
    \/ update_dynamic
    \/ Window_quit

Spec == Init /\ [][Next]_vars

\* the main loop runs the callback of a due alarm
SpecFair == Spec /\ WF_vars(update_dynamic)

\* ---- the templates of the 'dates' view (rdf_util/queries.py) ----
\* A raw binding tuple is [key, sort]: the DateTime resource and the value
\* of the q_by format ({MInt} at level 2); numbers stand for the strings,
\* their order for the lexicographic order.
DateKeys == {1, 2}
SortKeys == {1, 2}
DateLevels == {1, 2, 3, 4, 5}
Tuples == [key : DateKeys, sort : SortKeys]

RawResults == UNION {[1..n -> Tuples] : n \in 0..MaxRaw}

\* options of tree_views['dates']['query'][level - 1]: unique=True
DatesUnique_first_missing(level) == level > 1

DatesUnique(level) == level \in DateLevels

\* the sort key of a tuple under q_by: none at level 1, {MInt} at level 2,
\* {DateTime} below
DatesQBy(level, t) ==
    CASE level = 1 -> 0
      [] level = 2 -> t.sort
      [] OTHER -> t.key

\* options.unique: tuples with an identical key collapse to the first
RECURSIVE Collapse(_, _)
Collapse(seq, seen) ==
    IF seq = <<>> THEN <<>>
    ELSE IF Head(seq).key \in seen THEN Collapse(Tail(seq), seen)
    ELSE <<Head(seq)>> \o Collapse(Tail(seq), seen \union {Head(seq).key})

Unique_keep_all(seq) == seq

Unique(seq) == Collapse(seq, {})

\* options.qBy: stable reordering by the substituted sort key
RECURSIVE Insert(_, _, _)
Insert(level, t, sorted) ==
    IF sorted = <<>> THEN <<t>>
    ELSE IF DatesQBy(level, t) < DatesQBy(level, Head(sorted))
    THEN <<t>> \o sorted
    ELSE <<Head(sorted)>> \o Insert(level, t, Tail(sorted))

RECURSIVE OrderBy(_, _)
OrderBy(level, seq) ==
    IF seq = <<>> THEN <<>>
    ELSE Insert(level, seq[Len(seq)],
                OrderBy(level, SubSeq(seq, 1, Len(seq) - 1)))

\* execute(parentValue) of a 'dates' template on the engine's raw result
execute_dates(level, tuples) ==
    OrderBy(level, IF DatesUnique(level) THEN Unique(tuples) ELSE tuples)

InitU ==
    /\ db = 1
    /\ queries = <<>>
    /\ nodes = <<>>
    /\ body = None
    /\ focus = None
    /\ rpquery = None
    /\ iparent = Unset
    /\ views = load_views("Resource")
    /\ vfocus = 1
    /\ loop = "running"
    /\ lastOp = Op("init", None, "", 0, None, <<>>, <<>>, FALSE, <<>>)
    /\ expanded = {}
    /\ alarms = 1
    /\ raw \in RawResults
    /\ tmpl \in DateLevels
    /\ dates = <<>>
    /\ children = {}

\* a template of the chain is executed: the engine answers with raw
execute ==
    /\ lastOp.op = "init"
    /\ dates' = execute_dates(tmpl, raw)
    /\ lastOp' = Op("execute", None, "", 0, None, <<>>, <<"execute">>, FALSE,
                    <<>>)
    /\ UNCHANGED <<db, queries, nodes, body, focus, rpquery, iparent, views,
                   vfocus, loop, expanded, alarms, raw, tmpl, children>>

\* the template is executed for another parent value
reexecute ==
    /\ lastOp.op = "execute"
    /\ \E r \in RawResults :
        /\ raw' = r
        /\ dates' = execute_dates(tmpl, r)
    /\ UNCHANGED <<db, queries, nodes, body, focus, rpquery, iparent, views,
                   vfocus, loop, lastOp, expanded, alarms, tmpl, children>>

NextU == execute \/ reexecute

SpecU == InitU /\ [][NextU]_vars

\* ======================= properties =======================
IsNode(x) == x \in NodeIds

QueryOf(n) == queries[nodes[n].pq]

\* the registered operations of instance_ops, spelled out
Registered(n, key) ==
    /\ n # None
    /\ key = "enter"
    /\ TypeOf(nodes[n].key) \in {"Recording", "Release"}

\* the Bound Query of the top-level ancestor of a node: the tree it is in
RECURSIVE TreeOf(_)
TreeOf(n) ==
    IF nodes[n].parent = None THEN nodes[n].pq ELSE TreeOf(nodes[n].parent)

\* C1: sibling linkage is symmetric.  Whenever a node's next sibling is a
\* node m, the previous sibling of m is that very node, and whenever its
\* previous sibling is a node p, the next sibling of p is that very node;
\* a sibling call that returns a node leaves the returned node linked back
\* to the node it was called on.
C1_SiblingSymmetry ==
    /\ \A n \in NodeIds :
        /\ IsNode(nodes[n].next) => nodes[nodes[n].next].prev = n
        /\ IsNode(nodes[n].prev) => nodes[nodes[n].prev].next = n
    /\ (lastOp.dir # 0 /\ lastOp.ret # None) =>
        /\ Cached(lastOp.node, lastOp.dir) = lastOp.ret
        /\ Cached(lastOp.ret, 0 - lastOp.dir) = lastOp.node

\* a middle node whose two neighbours are both resolved, reached by a
\* prev_sibling call that returned a node
C1_Witness ==
    /\ lastOp.op = "prev_sibling"
    /\ lastOp.ret # None
    /\ IsNode(nodes[lastOp.node].next)
    /\ IsNode(nodes[lastOp.node].prev)

\* C2: a node is a leaf exactly when the child query of its Bound Query for
\* its key has zero results; at the last level of the chain the child
\* query is absent and the node is a leaf.
C2_LeafIffNoChildren ==
    \A n \in NodeIds :
        /\ nodes[n].leaf <=>
            (QueryOf(n).level >= ChainLen(QueryOf(n).view)
             \/ Execute(db, QueryOf(n).view, QueryOf(n).level + 1,
                        nodes[n].key) = <<>>)
        /\ nodes[n].leaf <=> (Len(child_query(QueryOf(n), nodes[n].key).keys) = 0)

\* a leaf at the last level, a leaf above the last level and a parent node
C2_Witness ==
    /\ \E n \in NodeIds :
        nodes[n].leaf /\ QueryOf(n).level = ChainLen(QueryOf(n).view)
    /\ \E n \in NodeIds :
        nodes[n].leaf /\ QueryOf(n).level < ChainLen(QueryOf(n).view)
    /\ \E n \in NodeIds : ~nodes[n].leaf

\* C3: node identity is preserved across repeated navigation.  A sibling
\* call on a node whose neighbour is already resolved returns that
\* neighbour and constructs no node; a call that returns a node leaves it
\* cached; and a resolved neighbour is never replaced.
C3_Identity ==
    [][/\ \A n \in NodeIds :
            /\ IsNode(nodes[n].next) => nodes'[n].next = nodes[n].next
            /\ IsNode(nodes[n].prev) => nodes'[n].prev = nodes[n].prev
       /\ (lastOp'.dir # 0 /\ lastOp' # lastOp) =>
            /\ IsNode(Cached(lastOp'.node, lastOp'.dir)) =>
                /\ lastOp'.ret = Cached(lastOp'.node, lastOp'.dir)
                /\ Len(nodes') = Len(nodes)
            /\ lastOp'.ret # None =>
                (IF lastOp'.dir = 1 THEN nodes'[lastOp'.node].next
                 ELSE nodes'[lastOp'.node].prev) = lastOp'.ret
      ]_vars

\* a sibling call answered from the cache
C3_Witness ==
    /\ lastOp.dir # 0
    /\ lastOp.ret # None
    /\ lastOp.events = <<>>

\* C4: a sibling call that finds no neighbour caches the "no sibling"
\* sentinel on the node.
C4_SentinelCached ==
    (lastOp.dir # 0 /\ lastOp.ret = None /\ loop = "running") =>
        Cached(lastOp.node, lastOp.dir) = FalseSentinel

\* C5: every node at the last level of a chain is a leaf, load_child_keys
\* of a parent node returns the engine's key sequence of the next template
\* for the node's key, and in the catalogue where artist A has the albums
\* X and Y and album X the single track T1, the node T1 reached through A
\* and X is a leaf and X is a parent whose child keys are exactly <<T1>>.
C5_ChainNavigation ==
    /\ \A n \in NodeIds :
        QueryOf(n).level = ChainLen(QueryOf(n).view) => nodes[n].leaf
    /\ (lastOp.op = "load_child_keys" /\ loop = "running") =>
        /\ ~nodes[lastOp.node].leaf
        /\ lastOp.keys = Execute(db, QueryOf(lastOp.node).view,
                                 QueryOf(lastOp.node).level + 1,
                                 nodes[lastOp.node].key)
    /\ db = 1 =>
        \A n \in NodeIds :
            QueryOf(n).view = "artist_releases" =>
                /\ nodes[n].key = "T1" => nodes[n].leaf
                /\ nodes[n].key = "X" =>
                    /\ ~nodes[n].leaf
                    /\ (lastOp.op = "load_child_keys" /\ lastOp.node = n
                        /\ loop = "running") => lastOp.keys = <<"T1">>

\* root -> A -> X -> T1 has been navigated and X was asked for its keys
C5_Witness ==
    /\ db = 1
    /\ lastOp.op = "load_child_keys"
    /\ nodes[lastOp.node].key = "X"
    /\ \E t \in NodeIds :
        /\ nodes[t].key = "T1"
        /\ nodes[t].leaf
        /\ nodes[t].parent = lastOp.node
    /\ IsNode(nodes[lastOp.node].parent)
    /\ nodes[nodes[lastOp.node].parent].key = "A"
    /\ nodes[nodes[lastOp.node].parent].parent = None

\* C6: after rooting the null=true view instance_list on an empty engine
\* result the displayed tree has no top-level node (only the placeholder).
C6_EmptyRootEmptyTree ==
    (/\ lastOp.op \in {"load_instances", "load_view"}
     /\ loop = "running"
     /\ rpquery # None
     /\ queries[rpquery].view = "instance_list"
     /\ queries[rpquery].keys = <<>>) => body = None

\* C7 as stated: a key press without a registered operation issues no
\* engine query and no player reload and the key is passed on.
C7_NoEngineQuery ==
    (lastOp.op = "keypress" /\ ~Registered(lastOp.node, lastOp.key)) =>
        /\ \A i \in 1..Len(lastOp.events) :
            lastOp.events[i] \notin {"copy", "child_query", "mixed_query",
                                     "reload"}
        /\ lastOp.fwd

\* C7 amended: a key press without a registered operation submits no
\* dispatch query, hands nothing to a result handler, does not reload the
\* player and passes the key on to the default key handling; the only
\* engine query it can cause is the child query of the neighbour node that
\* the default handling of "up" / "down" constructs.
C7_NoDispatch ==
    (lastOp.op = "keypress" /\ ~Registered(lastOp.node, lastOp.key)) =>
        /\ lastOp.fwd
        /\ lastOp.q = <<>>
        /\ \A i \in 1..Len(lastOp.events) :
            lastOp.events[i] \notin {"mixed_query", "handler", "reload"}
        /\ lastOp.events # <<>> =>
            /\ lastOp.key \in {"up", "down"}
            /\ lastOp.node # None
        /\ (lastOp.events # <<>> /\ loop = "running" /\ lastOp.ret = None) =>
            lastOp.events = <<"index">>

\* "down" on a node without a registered operation, passed on to the
\* default handling, which resolved the next sibling with a child query
C7_Witness ==
    /\ lastOp.op = "keypress"
    /\ lastOp.key = "down"
    /\ lastOp.node # None
    /\ ~Registered(lastOp.node, lastOp.key)
    /\ lastOp.fwd
    /\ lastOp.ret # None
    /\ lastOp.events = <<"index", "child_query">>
    /\ loop = "running"

\* C8: a key press with a registered operation performs the engine query
\* of the mutating template for the selected key, then the hand-over to
\* the result handler, then the reload of the 'now' player, and consumes
\* the key.
C8_DispatchOrder ==
    (lastOp.op = "keypress" /\ Registered(lastOp.node, lastOp.key)
     /\ loop = "running") =>
        /\ lastOp.events = <<"mixed_query", "handler", "reload">>
        /\ lastOp.q =
            <<IF TypeOf(nodes[lastOp.node].key) = "Recording"
              THEN "xcat_filepath" ELSE "xcat_tracklist_filepaths",
              nodes[lastOp.node].key>>
        /\ ~lastOp.fwd
        /\ lastOp.ret = None

\* "enter" on a Release node has been dispatched
C8_Witness ==
    /\ lastOp.op = "keypress"
    /\ lastOp.node # None
    /\ Registered(lastOp.node, lastOp.key)
    /\ loop = "running"
    /\ lastOp.q = <<"xcat_tracklist_filepaths", "X">>

\* C9: an engine failure while building or navigating tree nodes does not
\* reach the event loop: the main loop keeps running.
C9_FaultContained ==
    lastOp.op \in {"load_instances", "load_view", "next_sibling",
                   "prev_sibling", "load_child_keys", "load_child_node",
                   "keypress"} => loop # "faulted"

\* C10: re-rooting leaves every existing Bound Query as it was, each Bound
\* Query holds the engine's keys for its own parent value, and every cached
\* sibling or parent pointer stays inside one tree: siblings share the
\* Bound Query and the parent node, a child's Bound Query is the child
\* query of its parent's key.
C10_TreesIndependent ==
    [][/\ \A q \in QueryIds : queries'[q] = queries[q]
       /\ \A q \in 1..Len(queries') :
            queries'[q].keys = Execute(db', queries'[q].view,
                                       queries'[q].level, queries'[q].pv)
       /\ \A n \in 1..Len(nodes') :
            /\ \A m \in {nodes'[n].next, nodes'[n].prev} \ {None} :
                /\ nodes'[m].pq = nodes'[n].pq
                /\ nodes'[m].parent = nodes'[n].parent
            /\ nodes'[n].parent # None =>
                /\ queries'[nodes'[n].pq].view =
                       queries'[nodes'[nodes'[n].parent].pq].view
                /\ queries'[nodes'[n].pq].level =
                       queries'[nodes'[nodes'[n].parent].pq].level + 1
                /\ queries'[nodes'[n].pq].pv = nodes'[nodes'[n].parent].key
      ]_vars

\* two trees rooted at different parent values, the older one with a
\* cached sibling
C10_Witness ==
    \E n \in NodeIds, m \in NodeIds :
        /\ nodes[n].parent = None /\ nodes[m].parent = None
        /\ nodes[n].pq # nodes[m].pq
        /\ QueryOf(n).pv # QueryOf(m).pv
        /\ IsNode(nodes[n].next)
        /\ m = body
        /\ n < m

\* the set of elements of a sequence
Range(seq) == {seq[i] : i \in 1..Len(seq)}

\* the class whose views the view list shows: RDFS.Resource from
\* ViewList.__init__, afterwards the class of the last load_instances
ListedClass ==
    CASE lastOp.op = "load_instances" /\ loop = "crashed" -> lastOp.key
      [] iparent = Unset -> "Resource"
      [] OTHER -> iparent

\* C11: the view list holds exactly the registered views whose root is a
\* class of the ancestor closure of the selected class: every listed view
\* has such a root, every registered view with such a root is listed, and
\* no view is listed twice.
C11_ViewsOfClosure ==
    /\ \A i \in 1..Len(views) :
        /\ views[i] \in Range(ViewNames)
        /\ ViewRoot(views[i]) \in Range(all_classes(ListedClass))
    /\ \A v \in Range(ViewNames) :
        ViewRoot(v) \in Range(all_classes(ListedClass)) => v \in Range(views)
    /\ \A i \in 1..Len(views), j \in 1..Len(views) :
        views[i] = views[j] => i = j

\* a class was selected whose closure leaves a registered view out
C11_Witness ==
    /\ lastOp.op = "load_instances"
    /\ iparent = "Release"
    /\ views = <<"instance_list">>

\* C12: the child query of a node's key is executed once: load_child_keys
\* and load_child_node do not execute it again after the construction of
\* the node, and all children of one parent share one child Bound Query.
C12_ChildQueryOnce ==
    /\ \A n \in NodeIds, m \in NodeIds :
        (nodes[n].parent # None /\ nodes[n].parent = nodes[m].parent) =>
            nodes[n].pq = nodes[m].pq
    /\ lastOp.op \in {"load_child_keys", "load_child_node"} =>
        (lastOp.events = <<>> \/ Head(lastOp.events) # "child_query")

\* C14 as stated: exactly one alarm is pending in every state and a
\* refresh always eventually happens again.
C14_RefreshForever ==
    /\ [](alarms = 1)
    /\ []<>(lastOp.op = "update_dynamic")

\* C14 amended: exactly one alarm is pending in every state, and a refresh
\* happens again and again unless the main loop has ended (ExitMainLoop or
\* an exception that leaves it).
C14_RefreshWhileRunning ==
    /\ [](alarms = 1)
    /\ []<>(lastOp.op = "update_dynamic" \/ loop # "running")

\* the timer fired after the tree had been rooted and navigated
C14_Witness ==
    /\ lastOp.op = "update_dynamic"
    /\ Len(nodes) > 1
    /\ alarms = 1
    /\ loop = "running"

\* the position of the first raw tuple with the key k
FirstOf(k) == CHOOSE i \in 1..Len(raw) :
    raw[i].key = k /\ \A j \in 1..(i - 1) : raw[j].key # k

\* C15: a template with the unique option never returns two entries with
\* the same key; every key of the raw result is returned, with the tuple
\* of its first occurrence.
C15_UniqueKeys ==
    lastOp.op = "execute" =>
        /\ \A i \in 1..Len(dates), j \in 1..Len(dates) :
            dates[i].key = dates[j].key => i = j
        /\ \A i \in 1..Len(raw) : \E j \in 1..Len(dates) :
            dates[j].key = raw[i].key
        /\ \A j \in 1..Len(dates) :
            /\ \E i \in 1..Len(raw) : raw[i].key = dates[j].key
            /\ dates[j] = raw[FirstOf(dates[j].key)]

\* a raw result with a repeated key, whose later tuple differs, was executed
C15_Witness ==
    /\ lastOp.op = "execute"
    /\ dates # <<>>
    /\ \E i \in 1..Len(raw), j \in 1..Len(raw) :
        i < j /\ raw[i].key = raw[j].key /\ raw[i] # raw[j]

\* the keys met by following the cached next / previous pointers from n
RECURSIVE Forward(_)
Forward(n) ==
    IF IsNode(nodes[n].next)
    THEN <<nodes[n].key>> \o Forward(nodes[n].next)
    ELSE <<nodes[n].key>>

RECURSIVE Backward(_)
Backward(n) ==
    IF IsNode(nodes[n].prev)
    THEN <<nodes[n].key>> \o Backward(nodes[n].prev)
    ELSE <<nodes[n].key>>

\* C16: sibling traversal visits the keys in keys() order and ends.  The
\* keys reached from a node by next_sibling are the keys that follow it in
\* keys(), in that order; by prev_sibling the keys before it, in reverse;
\* next_sibling returns none only on the node of the last key and
\* prev_sibling only on the node of the first key.
C16_Traversal ==
    /\ \A n \in NodeIds :
        LET ks == QueryOf(n).keys
            i == index(ks, nodes[n].key)
        IN  /\ i + Len(Forward(n)) - 1 <= Len(ks)
            /\ \A j \in 1..Len(Forward(n)) : Forward(n)[j] = ks[i + j - 1]
            /\ i - Len(Backward(n)) + 1 >= 1
            /\ \A j \in 1..Len(Backward(n)) : Backward(n)[j] = ks[i - j + 1]
    /\ (lastOp.dir # 0 /\ lastOp.ret = None /\ loop = "running") =>
        LET ks == QueryOf(lastOp.node).keys
            i == index(ks, nodes[lastOp.node].key)
        IN  IF lastOp.dir = 1 THEN i = Len(ks) ELSE i = 1

\* the three keys of a Bound Query were visited from the first node and
\* next_sibling then returned none on the third
C16_Witness ==
    /\ lastOp.op = "next_sibling"
    /\ lastOp.ret = None
    /\ loop = "running"
    /\ \E n \in NodeIds :
        /\ Len(QueryOf(n).keys) = 3
        /\ Forward(n) = QueryOf(n).keys
        /\ Backward(lastOp.node) =
            <<QueryOf(n).keys[3], QueryOf(n).keys[2], QueryOf(n).keys[1]>>

\* C17: every re-rooting uses a defined parent value, also when load_view
\* comes before any load_instances: the tree is rooted at the copy of the
\* query for the stored parent.
C17_DefinedParent ==
    lastOp.op \in {"load_view", "load_instances"} =>
        /\ iparent # Unset
        /\ loop # "crashed"
        /\ loop = "running" =>
            (rpquery # None /\ queries[rpquery].pv = iparent)

\* C18: a node widget starts collapsed; "tab" on a parent node flips
\* expanded and on a leaf leaves it false, and is consumed by the widget;
\* any other key leaves expanded as it is and is returned by the widget;
\* nothing else changes expanded.
C18_ExpandState ==
    [][/\ \A n \in (1..Len(nodes')) \ NodeIds : n \notin expanded'
       /\ \A n \in expanded' : n \in 1..Len(nodes') /\ ~nodes'[n].leaf
       /\ lastOp'.op # "keypress" => expanded' = expanded
       /\ (lastOp'.op = "keypress" /\ lastOp'.node # None /\ lastOp'.fwd) =>
            IF lastOp'.key = "tab"
            THEN /\ lastOp'.wret = ""
                 /\ expanded' \ {lastOp'.node} = expanded \ {lastOp'.node}
                 /\ IF nodes[lastOp'.node].leaf
                    THEN lastOp'.node \notin expanded'
                    ELSE (lastOp'.node \in expanded') #
                         (lastOp'.node \in expanded)
            ELSE /\ lastOp'.wret = lastOp'.key
                 /\ expanded' = expanded
      ]_vars

\* a parent node was expanded with "tab" while a leaf node exists
C18_Witness ==
    /\ lastOp.op = "keypress"
    /\ lastOp.key = "tab"
    /\ lastOp.node \in expanded
    /\ \E n \in NodeIds : nodes[n].leaf

\* C19: after new_tree the displayed tree is the tree of the current Bound
\* Query: its first node, if there is one, is a node over self.rpquery.
C19_BodyOverRpquery ==
    (/\ lastOp.op \in {"load_view", "load_instances"}
     /\ loop = "running"
     /\ body # None) => nodes[body].pq = rpquery

\* C20: a cached sibling pointer is adjacent and write-once: the cached
\* next (previous) sibling of a node is a node over the same Bound Query
\* with the same parent node whose key is the immediate successor
\* (predecessor) of the node's key in keys(), and a pointer that holds a
\* node keeps it.
C20_AdjacentWriteOnce ==
    [][/\ \A n \in 1..Len(nodes') : \A dir \in {1, -1} :
            LET m == IF dir = 1 THEN nodes'[n].next ELSE nodes'[n].prev
                ks == queries'[nodes'[n].pq].keys
            IN  m # None =>
                    /\ m \in 1..Len(nodes')
                    /\ m # n
                    /\ nodes'[m].pq = nodes'[n].pq
                    /\ nodes'[m].parent = nodes'[n].parent
                    /\ index(ks, nodes'[m].key) =
                           index(ks, nodes'[n].key) + dir
       /\ \A n \in NodeIds :
            /\ nodes[n].next # None => nodes'[n].next = nodes[n].next
            /\ nodes[n].prev # None => nodes'[n].prev = nodes[n].prev
      ]_vars

\* a child node under a parent node with a cached previous sibling
C20_Witness ==
    \E n \in NodeIds :
        /\ nodes[n].parent # None
        /\ IsNode(nodes[n].prev)
        /\ nodes[nodes[n].prev].parent = nodes[n].parent

\* C21: at most one tree node exists per (parent node, child key): no two
\* nodes have the same parent node and the same key, and a child node
\* reached by next_sibling or prev_sibling is the node that the child
\* lookup of its parent holds for its key.
C21_OneNodePerChildKey ==
    /\ \A n \in NodeIds, m \in NodeIds :
        (nodes[n].parent # None /\ nodes[n].parent = nodes[m].parent
            /\ nodes[n].key = nodes[m].key) => n = m
    /\ \A n \in NodeIds :
        nodes[n].parent # None =>
            get_child_node(nodes[n].parent, nodes[n].key) = n

\* C22: view resolution never fails: the name returned by
\* ViewList.selected() is a key of the view registry, and load_instances
\* never ends in an exception raised by listing or resolving the views,
\* whatever class was selected.
C22_ViewResolution ==
    /\ selected(views, vfocus) \in Range(ViewNames)
    /\ lastOp.op = "load_instances" => loop # "crashed"

====
